---- MODULE Spec2Model ----
(***************************************************************************)
(* Model of the request-admission layer of the miner:                      *)
(*   - the dedup cache        (model/lib/blacklist.py, is_request_in_cache) *)
(*   - the admission gate     (model/lib/miner.py, Miner._predict)          *)
(*   - the blacklist pipeline (model/lib/blacklist.py, default_blacklist    *)
(*                             and blacklist; miner.py, Miner.blacklist)    *)
(* and of its epoch loop and the lifecycle around it:                      *)
(*   - the epoch loop         (model/lib/run.py, run)                       *)
(*   - the lifecycle          (model/lib/miner.py, run_in_background_thread,*)
(*                             stop_run_thread, __enter__, __exit__)        *)
(***************************************************************************)
EXTENDS Integers, Sequences, FiniteSets, TLC

(***************************************************************************)
(* Bounds of the model.                                                    *)
(***************************************************************************)
NumTasks == 3
MaxBlock == 2
MaxSpan == 1
MaxEpochLen == 2

Tasks == 1..NumTasks
Blocks == 0..MaxBlock
Keys == {"k1", "k2"}
\* The executions of run(): MainRun is a direct call of Miner.run() on the
\* main thread, Threads are the threads made by run_in_background_thread, in
\* the order of their making.
MainRun == 0
Threads == {1, 2}
Runs == {MainRun} \cup Threads

None == "None"

VARIABLES
    config,             \* self.config (miner.blacklist.*, wandb.on)
    metagraph,          \* self.metagraph: block, hotkeys, validator_permit
    chain_block,        \* the chain's height, nbnetwork.get_current_block()
    request_cache,      \* self.request_cache: request_key -> block
    lock,               \* self.lock: TRUE while an is_request_in_cache holds it
    pc,                 \* position of each awaited is_request_in_cache call
    request_key,        \* local request_key of each call
    current_block,      \* local current_block of each call
    found,              \* outcome of the test "request_key in self.request_cache"
    should_blacklist,   \* local should_blacklist of each call
    result,             \* value returned by each call
    gate,               \* outcome of the last Miner._predict call
    now,                \* the clock, time.time(), in seconds
    request_timestamps, \* self.request_timestamps: hotkey -> list of times
    bl,                 \* the blacklist(self, func, synapse) call that has just
                        \* ended, None when none is being observed
    hist,               \* history: whether the cache held the key when a call
                        \* was issued, and when it entered the critical
                        \* section; the chain's height when it read the block
    should_exit,        \* self.should_exit
    is_running,         \* self.is_running
    thread,             \* self.thread: number of the last thread made, 0 for None
    last_epoch_block,   \* self.last_epoch_block
    axon,               \* self.axon: whether serve(), start(), stop() were called
    process,            \* "alive", or "exited" once SystemExit left the main thread
    loop,               \* each execution of run(): position, locals step and
                        \* current_block, and history of the iteration
    sup,                \* the caller of the lifecycle methods: position and
                        \* whether it is inside a `with miner:` block
    last_call           \* history: the lifecycle call made last and the state
                        \* it found

vars == <<config, metagraph, chain_block, request_cache, lock, pc, request_key,
          current_block, found, should_blacklist, result, gate, now,
          request_timestamps, bl, hist, should_exit, is_running, thread,
          last_epoch_block, axon, process, loop, sup, last_call>>

blVars == <<now, request_timestamps, bl>>

cacheVars == <<request_cache, lock, pc, request_key, current_block, found,
               should_blacklist, result, hist>>

loopVars == <<should_exit, is_running, thread, last_epoch_block, axon, process,
              loop, sup, last_call>>

(***************************************************************************)
(* The dedup cache: is_request_in_cache.                                   *)
(***************************************************************************)

\* request_key in self.request_cache
InCache(cache, key) == key \in DOMAIN cache

\* self.request_cache[request_key] = current_block
CacheInsert(cache, key, block) ==
    [k \in DOMAIN cache \cup {key} |-> IF k = key THEN block ELSE cache[k]]

\* The expiry test of the sweep: block + request_cache_block_span < current_block
ExpiredInclusive(block, span, cur) == block + span <= cur
Expired(block, span, cur) == block + span < cur

\* keys_to_remove, then del self.request_cache[key] for each of them
Sanitize(cache, span, cur) ==
    LET keys_to_remove == {k \in DOMAIN cache : Expired(cache[k], span, cur)}
    IN  [k \in DOMAIN cache \ keys_to_remove |-> cache[k]]

Span == config.blacklist.request_cache_block_span

\* A task awaits is_request_in_cache(self, synapse): the coroutine is created
\* and scheduled; it has not taken the lock yet.  The calls are numbered in
\* the order in which they are issued.
Call(p, key) ==
    /\ pc[p] = "idle"
    /\ \A q \in Tasks : q < p => pc[q] # "idle"
    /\ pc' = [pc EXCEPT ![p] = "acquire"]
    /\ request_key' = [request_key EXCEPT ![p] = key]
    /\ hist' = [hist EXCEPT !.absent_at_call[p] = ~InCache(request_cache, key)]
    /\ UNCHANGED <<config, metagraph, chain_block, request_cache, lock,
                   current_block, found, should_blacklist, result, gate>>
    /\ UNCHANGED blVars
    /\ UNCHANGED loopVars

\* async with self.lock: the guard of the entry into the critical section.
LockFreeIgnored(p) == TRUE
LockFree(p) == ~lock

Acquire(p) ==
    /\ pc[p] = "acquire"
    /\ LockFree(p)
    /\ lock' = TRUE
    /\ pc' = [pc EXCEPT ![p] = "lookup"]
    /\ hist' = [hist EXCEPT
                  !.in_cache_at_entry[p] = InCache(request_cache, request_key[p])]
    /\ UNCHANGED <<config, metagraph, chain_block, request_cache, request_key,
                   current_block, found, should_blacklist, result, gate>>
    /\ UNCHANGED blVars
    /\ UNCHANGED loopVars

\* current_block = self.metagraph.block; if request_key in self.request_cache
Lookup(p) ==
    /\ pc[p] = "lookup"
    /\ current_block' = [current_block EXCEPT ![p] = metagraph.block]
    /\ found' = [found EXCEPT ![p] = InCache(request_cache, request_key[p])]
    /\ pc' = [pc EXCEPT ![p] = "record"]
    /\ hist' = [hist EXCEPT !.chain_at_lookup[p] = chain_block]
    /\ UNCHANGED <<config, metagraph, chain_block, request_cache, lock,
                   request_key, should_blacklist, result, gate>>
    /\ UNCHANGED blVars
    /\ UNCHANGED loopVars

\* The two branches of the test: the value of should_blacklist.
VerdictInverted(wasFound) == ~wasFound
Verdict(wasFound) == wasFound

\* if request_key in self.request_cache: ... else: the key is recorded
RecordRefreshing(p) ==
    /\ pc[p] = "record"
    /\ request_cache' =
         CacheInsert(request_cache, request_key[p], current_block[p])
    /\ should_blacklist' = [should_blacklist EXCEPT ![p] = Verdict(found[p])]
    /\ pc' = [pc EXCEPT ![p] = "sweep"]
    /\ UNCHANGED <<config, metagraph, chain_block, lock, request_key,
                   current_block, found, result, gate, hist>>
    /\ UNCHANGED blVars
    /\ UNCHANGED loopVars
Record(p) ==
    /\ pc[p] = "record"
    /\ request_cache' =
         IF found[p]
           THEN request_cache
           ELSE CacheInsert(request_cache, request_key[p], current_block[p])
    /\ should_blacklist' = [should_blacklist EXCEPT ![p] = Verdict(found[p])]
    /\ pc' = [pc EXCEPT ![p] = "sweep"]
    /\ UNCHANGED <<config, metagraph, chain_block, lock, request_key,
                   current_block, found, result, gate, hist>>
    /\ UNCHANGED blVars
    /\ UNCHANGED loopVars

\* Sanitize cache by removing old entries according to block span
Sweep(p) ==
    /\ pc[p] = "sweep"
    /\ request_cache' = Sanitize(request_cache, Span, current_block[p])
    /\ pc' = [pc EXCEPT ![p] = "release"]
    /\ UNCHANGED <<config, metagraph, chain_block, lock, request_key,
                   current_block, found, should_blacklist, result, gate, hist>>
    /\ UNCHANGED blVars
    /\ UNCHANGED loopVars

\* Leaving "async with self.lock", then return should_blacklist
Release(p) ==
    /\ pc[p] = "release"
    /\ lock' = FALSE
    /\ result' = [result EXCEPT ![p] = should_blacklist[p]]
    /\ pc' = [pc EXCEPT ![p] = "done"]
    /\ UNCHANGED <<config, metagraph, chain_block, request_cache, request_key,
                   current_block, found, should_blacklist, gate, hist>>
    /\ UNCHANGED blVars
    /\ UNCHANGED loopVars

(***************************************************************************)
(* The chain and the metagraph object.  The chain grows by itself.         *)
(* self.metagraph is an object of the network library: the source never    *)
(* rebinds or syncs it (run binds the refreshed snapshot to a local name), *)
(* so its block moves only when code outside the source syncs the object.  *)
(***************************************************************************)
\* The chain has grown to height b and the metagraph object is synced there.
MetagraphSync(b) ==
    /\ b > metagraph.block
    /\ b >= chain_block
    /\ chain_block' = b
    /\ metagraph' = [metagraph EXCEPT !.block = b]
    /\ UNCHANGED <<config, gate>>
    /\ UNCHANGED blVars
    /\ UNCHANGED cacheVars
    /\ UNCHANGED loopVars

(***************************************************************************)
(* The admission gate: Miner._predict.  is_request_in_cache is a coroutine *)
(* function and _predict calls it without awaiting it: the call only       *)
(* builds a coroutine object, whose body never runs, and the object is     *)
(* what the "if" tests.                                                    *)
(***************************************************************************)
Coroutine == "coroutine object"

\* Python truth value of the objects the gate can test
Truthy(v) == v \notin {"False", None, ""}

\* is_request_in_cache(self, synapse), called and not awaited
IsRequestInCacheCall(key) == Coroutine

\* Miner._predict
PredictOutcome(key) ==
    IF config.blacklist.use_request_cache
      THEN IF Truthy(IsRequestInCacheCall(key)) THEN "Reject" ELSE "Proceed"
      ELSE "Proceed"

Predict(key) ==
    /\ gate' = [key |-> key, outcome |-> PredictOutcome(key)]
    /\ UNCHANGED <<config, metagraph, chain_block>>
    /\ UNCHANGED blVars
    /\ UNCHANGED cacheVars
    /\ UNCHANGED loopVars

(***************************************************************************)
(* The blacklist pipeline: default_blacklist and blacklist.                *)
(* Python values are modelled by their text: "True", "False", "None".      *)
(***************************************************************************)
MaxTime == 61
MaxStamps == 2
MaxPeriod == 1
SecondsPerMinute == 60

Hotkeys == {"h1"}               \* the callers
OwnHotkey == "miner"            \* self.wallet.hotkey.ss58_address

\* x in list, list.index(x)
InList(x, list) == \E i \in 1..Len(list) : list[i] = x
IndexOf(x, list) == CHOOSE i \in 1..Len(list) :
                        list[i] = x /\ \A j \in 1..(i - 1) : list[j] # x

\* self.request_timestamps[hotkey][0], the earliest recorded time
EarliestTimestamp(hotkey) == request_timestamps[hotkey][1]

\* period < self.config.miner.blacklist.min_request_period * 60
PeriodTooShortInclusive(period) ==
    period <= config.blacklist.min_request_period * SecondsPerMinute
PeriodTooShort(period) ==
    period < config.blacklist.min_request_period * SecondsPerMinute

\* The f-string of the rate-limit reason
FrequencyReason(hotkey) ==
    hotkey \o " request frequency exceeded "
           \o ToString(Len(request_timestamps[hotkey])) \o " requests in "
           \o ToString(config.blacklist.min_request_period) \o " minutes."

\* default_blacklist with the two list checks in the other order
DefaultBlacklistBlacklistFirst(hotkey) ==
    IF hotkey \in config.blacklist.blacklist
      THEN <<"True", "blacklisted hotkey">>
    ELSE IF hotkey \in config.blacklist.whitelist
      THEN <<"False", "whitelisted hotkey">>
    ELSE IF /\ ~config.blacklist.allow_non_registered
            /\ ~InList(hotkey, metagraph.hotkeys)
      THEN <<"True", "hotkey not registered">>
    ELSE IF /\ config.blacklist.force_validator_permit
            /\ InList(hotkey, metagraph.hotkeys)
            /\ ~metagraph.validator_permit[IndexOf(hotkey, metagraph.hotkeys)]
      THEN <<"True", "validator permit required">>
    ELSE IF /\ config.blacklist.force_validator_permit
            /\ ~InList(hotkey, metagraph.hotkeys)
      THEN <<"True", "validator permit required, but hotkey not registered">>
    ELSE IF /\ hotkey \in DOMAIN request_timestamps
            /\ PeriodTooShort(now - EarliestTimestamp(hotkey))
      THEN <<"True", FrequencyReason(hotkey)>>
    ELSE <<"False", "passed blacklist">>

\* default_blacklist(self, synapse): the pair (verdict, reason)
DefaultBlacklist(hotkey) ==
    IF hotkey \in config.blacklist.whitelist
      THEN <<"False", "whitelisted hotkey">>
    ELSE IF hotkey \in config.blacklist.blacklist
      THEN <<"True", "blacklisted hotkey">>
    ELSE IF /\ ~config.blacklist.allow_non_registered
            /\ ~InList(hotkey, metagraph.hotkeys)
      THEN <<"True", "hotkey not registered">>
    ELSE IF /\ config.blacklist.force_validator_permit
            /\ InList(hotkey, metagraph.hotkeys)
            /\ ~metagraph.validator_permit[IndexOf(hotkey, metagraph.hotkeys)]
      THEN <<"True", "validator permit required">>
    ELSE IF /\ config.blacklist.force_validator_permit
            /\ ~InList(hotkey, metagraph.hotkeys)
      THEN <<"True", "validator permit required, but hotkey not registered">>
    ELSE IF /\ hotkey \in DOMAIN request_timestamps
            /\ PeriodTooShort(now - EarliestTimestamp(hotkey))
      THEN <<"True", FrequencyReason(hotkey)>>
    ELSE <<"False", "passed blacklist">>

\* What func(synapse) can do: raise, or return a value.  A value is a bare
\* object (no __len__) or a tuple of objects.
Bare(v) == [has_len |-> FALSE, items |-> <<v>>]
Tuple(items) == [has_len |-> TRUE, items |-> items]

ReturnValues ==
    {Bare(v) : v \in {"True", "False", "None"}}
    \cup {Tuple(<<v, r>>) : v \in {"True", "False", "None"},
                            r \in {"custom reason", "", "None"}}
    \cup {Tuple(<<"True">>), Tuple(<<"True", "custom reason", "extra">>)}

Overrides ==
    {[kind |-> "raise", exc |-> e, value |-> Bare("None")] :
        e \in {"NotImplementedError", "Exception", "BaseException"}}
    \cup {[kind |-> "return", exc |-> "None", value |-> v] : v \in ReturnValues}

\* The function Miner.blacklist passes: _blacklist, which raises
MinerBlacklistOverride ==
    [kind |-> "raise", exc |-> "NotImplementedError", value |-> Bare("None")]

\* The try body: call func, unpack its result
TryBody(override) ==
    IF override.kind = "raise"
      THEN [exc |-> override.exc, does_blacklist |-> "None", reason |-> "None"]
    ELSE IF override.value.has_len
      THEN IF Len(override.value.items) = 2
             THEN [exc |-> "None",
                   does_blacklist |-> override.value.items[1],
                   reason |-> override.value.items[2]]
             ELSE \* does_blacklist, reason = blacklist_result fails to unpack
                  [exc |-> "ValueError", does_blacklist |-> "None",
                   reason |-> "None"]
    ELSE [exc |-> "None", does_blacklist |-> override.value.items[1],
          reason |-> "no reason provided"]

\* What the except clause for Exception assigns to (does_blacklist, reason)
OnExceptionAllow(hotkey) == <<"False", "error in blacklist function">>
OnException(hotkey) == DefaultBlacklist(hotkey)

\* The except clauses: NotImplementedError, then Exception
ExceptClauses(hotkey, t) ==
    IF t.exc = "NotImplementedError"
      THEN [exc |-> "None", does_blacklist |-> DefaultBlacklist(hotkey)[1],
            reason |-> DefaultBlacklist(hotkey)[2]]
    ELSE IF t.exc \in {"Exception", "ValueError"}
      THEN [exc |-> "None", does_blacklist |-> OnException(hotkey)[1],
            reason |-> OnException(hotkey)[2]]
    ELSE t

\* finally: if does_blacklist == None, use the default blacklist
FinallyDefaultAlways(hotkey, t) ==
    [t EXCEPT !.does_blacklist = DefaultBlacklist(hotkey)[1],
              !.reason = DefaultBlacklist(hotkey)[2]]
FinallyDefault(hotkey, t) ==
    IF t.does_blacklist = "None"
      THEN [t EXCEPT !.does_blacklist = DefaultBlacklist(hotkey)[1],
                     !.reason = DefaultBlacklist(hotkey)[2]]
      ELSE t

\* blacklist(self, func, synapse).  wandb_fails: whether wandb.log raises if it
\* is called.  The return statement of the finally clause discards an
\* exception still in flight; an exception raised inside the finally clause,
\* before that return, leaves the function.
Blacklist(hotkey, override, wandb_fails) ==
    LET t == FinallyDefault(hotkey, ExceptClauses(hotkey, TryBody(override)))
        logs == Truthy(t.does_blacklist) /\ config.wandb.on
    IN  [hotkey |-> hotkey,
         override |-> override,
         logged |-> logs,
         outcome |-> IF logs /\ wandb_fails THEN "raised" ELSE "returned",
         verdict |-> IF logs /\ wandb_fails THEN "None" ELSE t.does_blacklist,
         reason |-> IF logs /\ wandb_fails THEN "None" ELSE t.reason]

NoEval == [hotkey |-> "None", override |-> MinerBlacklistOverride,
           logged |-> FALSE, outcome |-> "None", verdict |-> "None",
           reason |-> "None"]

\* The transport calls blacklist_fn for a request of `hotkey`
Evaluate(hotkey, override, wandb_fails) ==
    /\ bl = NoEval
    /\ bl' = Blacklist(hotkey, override, wandb_fails)
    /\ UNCHANGED <<config, metagraph, chain_block, gate, now,
                   request_timestamps>>
    /\ UNCHANGED cacheVars
    /\ UNCHANGED loopVars

\* The transport has taken the decision (or the failure)
Respond ==
    /\ bl # NoEval
    /\ bl' = NoEval
    /\ UNCHANGED <<config, metagraph, chain_block, gate, now,
                   request_timestamps>>
    /\ UNCHANGED cacheVars
    /\ UNCHANGED loopVars

\* The clock
Tick(d) ==
    /\ bl = NoEval
    /\ now + d <= MaxTime
    /\ now' = now + d
    /\ UNCHANGED <<config, metagraph, chain_block, gate, request_timestamps, bl>>
    /\ UNCHANGED cacheVars
    /\ UNCHANGED loopVars

\* self.request_timestamps is created empty and the source never writes it;
\* the code that records a request's time (a subclass) appends the time of the
\* request to the caller's list.
CountStamps(hotkey) ==
    IF hotkey \in DOMAIN request_timestamps
      THEN Len(request_timestamps[hotkey])
      ELSE 0

RecordTimestamp(hotkey) ==
    /\ bl = NoEval
    /\ CountStamps(hotkey) < MaxStamps
    /\ request_timestamps' =
          IF hotkey \in DOMAIN request_timestamps
            THEN [request_timestamps EXCEPT ![hotkey] = Append(@, now)]
            ELSE [h \in DOMAIN request_timestamps \cup {hotkey} |->
                    IF h = hotkey THEN <<now>> ELSE request_timestamps[h]]
    /\ UNCHANGED <<config, metagraph, chain_block, gate, now, bl>>
    /\ UNCHANGED cacheVars
    /\ UNCHANGED loopVars

(***************************************************************************)
(* The epoch loop: run(self) of model/lib/run.py.  Each execution of run() *)
(* has a position (pc), the local step, and history: at_boundary (the wait *)
(* of this iteration ended at the epoch boundary) and ended_by (why run()  *)
(* ended).  The local current_block is read back only by the test that     *)
(* follows its assignment, which is part of the same action.               *)
(***************************************************************************)
NoAxonCall == [served |-> FALSE, started |-> FALSE, stopped |-> FALSE]

NotStarted == [pc |-> "not_started", step |-> 0, at_boundary |-> FALSE,
               ended_by |-> None]

admissionVars == <<config, metagraph, gate, blVars, cacheVars>>

\* run() has been entered and has not ended
Executing(t) ==
    loop[t].pc \notin {"not_started", "returned", "raised", "exited"}

\* The positions inside the try statement of run()
TryBlock == {"while", "read_block", "poll", "refresh",
             "metagraph", "set_weights", "increment"}

\* run() has ended at position at because of why: its frame is gone, the
\* last value of step is kept
Ended(t, at, why) ==
    [loop EXCEPT ![t] = [NotStarted EXCEPT !.pc = at, !.step = loop[t].step,
                                           !.ended_by = why]]

\* exit() raises SystemExit: leaving the main thread it ends the process,
\* leaving a thread made by threading.Thread it ends that thread only.
Exit(t) == IF t = MainRun THEN "exited" ELSE process

\* The chain produces a block
ChainAdvance ==
    /\ chain_block < MaxBlock
    /\ chain_block' = chain_block + 1
    /\ UNCHANGED <<admissionVars, loopVars>>

\* if not self.nbnetwork.is_hotkey_registered(...): ... exit()
CheckRegistration(t, registered) ==
    /\ process = "alive"
    /\ loop[t].pc = "check_registration"
    /\ IF registered
         THEN /\ loop' = [loop EXCEPT ![t].pc = "serve"]
              /\ UNCHANGED process
         ELSE /\ loop' = Ended(t, "exited", "unregistered")
              /\ process' = Exit(t)
    /\ UNCHANGED <<should_exit, is_running, thread, last_epoch_block, axon,
                   sup, last_call>>
    /\ UNCHANGED <<chain_block, admissionVars>>

\* self.axon.serve(netuid=..., nbnetwork=...)
Serve(t) ==
    /\ process = "alive"
    /\ loop[t].pc = "serve"
    /\ axon' = [axon EXCEPT !.served = TRUE]
    /\ loop' = [loop EXCEPT ![t].pc = "start_axon"]
    /\ UNCHANGED <<should_exit, is_running, thread, last_epoch_block, process,
                   sup, last_call>>
    /\ UNCHANGED <<chain_block, admissionVars>>

\* self.axon.start()
StartAxon(t) ==
    /\ process = "alive"
    /\ loop[t].pc = "start_axon"
    /\ axon' = [axon EXCEPT !.started = TRUE]
    /\ loop' = [loop EXCEPT ![t].pc = "init"]
    /\ UNCHANGED <<should_exit, is_running, thread, last_epoch_block, process,
                   sup, last_call>>
    /\ UNCHANGED <<chain_block, admissionVars>>

\* self.last_epoch_block = self.nbnetwork.get_current_block(); step = 0
InitEpoch(t) ==
    /\ process = "alive"
    /\ loop[t].pc = "init"
    /\ last_epoch_block' = chain_block
    /\ loop' = [loop EXCEPT ![t].pc = "while", ![t].step = 0]
    /\ UNCHANGED <<should_exit, is_running, thread, axon, process, sup,
                   last_call>>
    /\ UNCHANGED <<chain_block, admissionVars>>

\* while not self.should_exit:  (leaving the loop ends the try statement and
\* run() returns)
WhileTest(t) ==
    /\ process = "alive"
    /\ loop[t].pc = "while"
    /\ loop' = IF should_exit
                 THEN Ended(t, "returned", "should_exit")
                 ELSE [loop EXCEPT ![t].pc = "read_block"]
    /\ UNCHANGED <<should_exit, is_running, thread, last_epoch_block, axon,
                   process, sup, last_call>>
    /\ UNCHANGED <<chain_block, admissionVars>>

\* current_block - self.last_epoch_block < self.config.miner.blocks_per_epoch
BeforeBoundary(block, last) == block - last < config.miner.blocks_per_epoch

\* The inner while is left for the bookkeeping of the epoch
LeaveWait(t, block) ==
    [loop EXCEPT ![t].pc = "refresh",
                 ![t].at_boundary = ~BeforeBoundary(block, last_epoch_block)]

\* current_block = self.nbnetwork.get_current_block() and the first test of
\* the inner while
ReadBlock(t) ==
    /\ process = "alive"
    /\ loop[t].pc = "read_block"
    /\ loop' = IF BeforeBoundary(chain_block, last_epoch_block)
                 THEN [loop EXCEPT ![t].pc = "poll"]
                 ELSE LeaveWait(t, chain_block)
    /\ UNCHANGED <<should_exit, is_running, thread, last_epoch_block, axon,
                   process, sup, last_call>>
    /\ UNCHANGED <<chain_block, admissionVars>>

\* if self.should_exit: break
BreaksWaitNever(flag) == FALSE
BreaksWait(flag) == flag

\* One turn of the inner while: time.sleep(1);
\* current_block = ...get_current_block(); if self.should_exit: break;
\* then the test of the inner while
Poll(t) ==
    /\ process = "alive"
    /\ loop[t].pc = "poll"
    /\ loop' = IF BreaksWait(should_exit)
                   \/ ~BeforeBoundary(chain_block, last_epoch_block)
                 THEN LeaveWait(t, chain_block)
                 ELSE loop
    /\ UNCHANGED <<should_exit, is_running, thread, last_epoch_block, axon,
                   process, sup, last_call>>
    /\ UNCHANGED <<chain_block, admissionVars>>

\* self.last_epoch_block = self.nbnetwork.get_current_block()
Refresh(t) ==
    /\ process = "alive"
    /\ loop[t].pc = "refresh"
    /\ last_epoch_block' = chain_block
    /\ loop' = [loop EXCEPT ![t].pc = "metagraph"]
    /\ UNCHANGED <<should_exit, is_running, thread, axon, process, sup,
                   last_call>>
    /\ UNCHANGED <<chain_block, admissionVars>>

\* metagraph = self.nbnetwork.metagraph(...); log = ...; nb.logging.info(log);
\* if self.config.wandb.on: wandb.log(log)
Snapshot(t) ==
    /\ process = "alive"
    /\ loop[t].pc = "metagraph"
    /\ loop' = [loop EXCEPT ![t].pc = "set_weights"]
    /\ UNCHANGED <<should_exit, is_running, thread, last_epoch_block, axon,
                   process, sup, last_call>>
    /\ UNCHANGED <<chain_block, admissionVars>>

\* if not self.config.miner.no_set_weights: set_weights(...)
SetWeights(t) ==
    /\ process = "alive"
    /\ loop[t].pc = "set_weights"
    /\ loop' = [loop EXCEPT ![t].pc = "increment"]
    /\ UNCHANGED <<should_exit, is_running, thread, last_epoch_block, axon,
                   process, sup, last_call>>
    /\ UNCHANGED <<chain_block, admissionVars>>

\* step += 1
StepIncrementDropped(step) == step
StepIncrement(step) == step + 1

Increment(t) ==
    /\ process = "alive"
    /\ loop[t].pc = "increment"
    /\ loop' = [loop EXCEPT ![t].pc = "while",
                            ![t].step = StepIncrement(@),
                            ![t].at_boundary = FALSE]
    /\ UNCHANGED <<should_exit, is_running, thread, last_epoch_block, axon,
                   process, sup, last_call>>
    /\ UNCHANGED <<chain_block, admissionVars>>

\* The positions of the try statement at which a call to the chain or to
\* telemetry is made, and so may raise
RaisingPositions ==
    {"read_block", "poll", "refresh", "metagraph"}
    \cup (IF config.miner.no_set_weights THEN {} ELSE {"set_weights"})

\* except Exception as e: nb.logging.error(traceback.format_exc())
\* The try statement encloses the whole while loop: the handler runs after
\* the loop has been left, and run() returns.
Fail(t) ==
    /\ process = "alive"
    /\ loop[t].pc \in RaisingPositions
    /\ loop' = Ended(t, "returned", "exception")
    /\ UNCHANGED <<should_exit, is_running, thread, last_epoch_block, axon,
                   process, sup, last_call>>
    /\ UNCHANGED <<chain_block, admissionVars>>

\* A call made before the try statement raises: the exception leaves run()
FailStartup(t) ==
    /\ process = "alive"
    /\ loop[t].pc \in {"check_registration", "serve", "start_axon", "init"}
    /\ loop' = Ended(t, "raised", "raised")
    /\ UNCHANGED <<should_exit, is_running, thread, last_epoch_block, axon,
                   process, sup, last_call>>
    /\ UNCHANGED <<chain_block, admissionVars>>

\* except KeyboardInterrupt: self.axon.stop(); ...; exit()
\* Python raises KeyboardInterrupt in the main thread only.
Interrupt(t) ==
    /\ process = "alive"
    /\ t = MainRun
    /\ loop[t].pc \in TryBlock
    /\ axon' = [axon EXCEPT !.stopped = TRUE]
    /\ loop' = Ended(t, "exited", "interrupt")
    /\ process' = Exit(t)
    /\ UNCHANGED <<should_exit, is_running, thread, last_epoch_block, sup,
                   last_call>>
    /\ UNCHANGED <<chain_block, admissionVars>>

(***************************************************************************)
(* The lifecycle: run_in_background_thread, stop_run_thread, __enter__ and *)
(* __exit__ of Miner, called by the main thread, which either calls run()  *)
(* itself or drives these methods.  last_call keeps the method called last *)
(* and the state it found.                                                 *)
(***************************************************************************)
NoCall == [op |-> None, was_running |-> FALSE, was_exiting |-> FALSE,
           launched |-> 0, exc |-> None, propagated |-> None]

CallOf(op, exc) ==
    [op |-> op, was_running |-> is_running, was_exiting |-> should_exit,
     launched |-> thread, exc |-> exc, propagated |-> None]

\* The main thread is free to call a method of the miner
SupIdle ==
    /\ process = "alive"
    /\ sup.pc = "idle"
    /\ loop[MainRun].pc = "not_started"

\* Miner.run(), called by the main thread of a miner that was never started
RunDirect ==
    /\ SupIdle
    /\ last_call = NoCall
    /\ loop' = [loop EXCEPT ![MainRun].pc = "check_registration"]
    /\ UNCHANGED <<should_exit, is_running, thread, last_epoch_block, axon,
                   process, sup, last_call>>
    /\ UNCHANGED <<chain_block, admissionVars>>

\* if not self.is_running:
ShouldLaunchAlways == TRUE
ShouldLaunch == ~is_running

\* run_in_background_thread: the thread made is numbered thread + 1 and
\* begins run()
RunInBackgroundThread ==
    IF ShouldLaunch
      THEN /\ thread + 1 \in Threads
           /\ should_exit' = FALSE
           /\ thread' = thread + 1
           /\ loop' = [loop EXCEPT ![thread + 1].pc = "check_registration"]
           /\ is_running' = TRUE
      ELSE UNCHANGED <<should_exit, thread, loop, is_running>>

Start ==
    /\ SupIdle
    /\ RunInBackgroundThread
    /\ last_call' = CallOf("start", None)
    /\ UNCHANGED <<last_epoch_block, axon, process, sup>>
    /\ UNCHANGED <<chain_block, admissionVars>>

\* __enter__: self.run_in_background_thread()
Enter ==
    /\ SupIdle
    /\ sup.scope = "out"
    /\ RunInBackgroundThread
    /\ sup' = [sup EXCEPT !.scope = "in"]
    /\ last_call' = CallOf("enter", None)
    /\ UNCHANGED <<last_epoch_block, axon, process>>
    /\ UNCHANGED <<chain_block, admissionVars>>

\* stop_run_thread up to self.thread.join(5):
\* if self.is_running: self.should_exit = True
StopRunThread(scope) ==
    /\ should_exit' = IF is_running THEN TRUE ELSE should_exit
    /\ sup' = [pc |-> IF is_running THEN "join" ELSE "idle", scope |-> scope]
    /\ UNCHANGED <<is_running, thread, loop>>

\* __exit__ has no return statement: it returns None
ExitReturnTrue == "True"
ExitReturn == None

\* The with statement raises the failure of its body again unless __exit__
\* returned a true value
Propagated(exc) == IF Truthy(ExitReturn) THEN None ELSE exc

Stop ==
    /\ SupIdle
    /\ StopRunThread(sup.scope)
    /\ last_call' = CallOf("stop", None)
    /\ UNCHANGED <<last_epoch_block, axon, process>>
    /\ UNCHANGED <<chain_block, admissionVars>>

\* __exit__(exc_type, exc_value, traceback): self.stop_run_thread(), at the
\* end of the with block or when its body raised exc
ExitScope(exc) ==
    /\ SupIdle
    /\ sup.scope = "in"
    /\ StopRunThread("out")
    /\ last_call' = [CallOf("exit", exc) EXCEPT
                       !.propagated = IF is_running THEN None
                                                    ELSE Propagated(exc)]
    /\ UNCHANGED <<last_epoch_block, axon, process>>
    /\ UNCHANGED <<chain_block, admissionVars>>

\* self.is_running = False
RunningAfterJoinIfAlive(alive) == alive
RunningAfterJoin(alive) == FALSE

\* self.thread.join(5) returns, the thread having ended or the 5 seconds
\* having passed; then self.is_running = False
Join ==
    /\ process = "alive"
    /\ sup.pc = "join"
    /\ is_running' = RunningAfterJoin(Executing(thread))
    /\ sup' = [sup EXCEPT !.pc = "idle"]
    /\ last_call' = [last_call EXCEPT
                       !.propagated = IF last_call.op = "exit"
                                        THEN Propagated(last_call.exc)
                                        ELSE None]
    /\ UNCHANGED <<should_exit, thread, last_epoch_block, axon, process, loop>>
    /\ UNCHANGED <<chain_block, admissionVars>>

(***************************************************************************)
(* Initial state: the miner as constructed (Miner.__init__).  The          *)
(* configuration and the metagraph are inputs.                             *)
(***************************************************************************)
Configs ==
    [blacklist :
        [whitelist : SUBSET Hotkeys,
         blacklist : SUBSET Hotkeys,
         allow_non_registered : BOOLEAN,
         force_validator_permit : BOOLEAN,
         min_request_period : 0..MaxPeriod,
         use_request_cache : BOOLEAN,
         request_cache_block_span : 0..MaxSpan],
     wandb : [on : BOOLEAN],
     miner : [blocks_per_epoch : 1..MaxEpochLen,
              no_set_weights : BOOLEAN]]

\* The miner's own hotkey is registered (Miner.__init__ exits otherwise); the
\* callers may or may not be.
HotkeyLists ==
    {<<OwnHotkey>>}
    \cup {<<OwnHotkey, h>> : h \in Hotkeys}
    \cup {<<h, OwnHotkey>> : h \in Hotkeys}

Metagraphs ==
    UNION {[block : {0}, hotkeys : {l},
            validator_permit : [1..Len(l) -> BOOLEAN]] : l \in HotkeyLists}

NoGate == [key |-> None, outcome |-> None]

Init ==
    /\ config \in Configs
    /\ metagraph \in Metagraphs
    /\ chain_block = 0
    /\ request_cache = << >>
    /\ lock = FALSE
    /\ pc = [p \in Tasks |-> "idle"]
    /\ request_key = [p \in Tasks |-> None]
    /\ current_block = [p \in Tasks |-> 0]
    /\ found = [p \in Tasks |-> FALSE]
    /\ should_blacklist = [p \in Tasks |-> FALSE]
    /\ result = [p \in Tasks |-> FALSE]
    /\ gate = NoGate
    /\ now = 0
    /\ request_timestamps = << >>
    /\ bl = NoEval
    /\ hist = [absent_at_call |-> [p \in Tasks |-> FALSE],
               in_cache_at_entry |-> [p \in Tasks |-> FALSE],
               chain_at_lookup |-> [p \in Tasks |-> 0]]
    /\ should_exit = FALSE
    /\ is_running = FALSE
    /\ thread = 0
    /\ last_epoch_block = 0
    /\ axon = NoAxonCall
    /\ process = "alive"
    /\ loop = [t \in Runs |-> NotStarted]
    /\ sup = [pc |-> "idle", scope |-> "out"]
    /\ last_call = NoCall

\* One configuration of the blacklist pipeline, for the runs about the cache
PipelineAtRest ==
    /\ config.blacklist.whitelist = {}
    /\ config.blacklist.blacklist = {}
    /\ ~config.blacklist.allow_non_registered
    /\ ~config.blacklist.force_validator_permit
    /\ config.blacklist.min_request_period = 0
    /\ ~config.wandb.on
    /\ metagraph.hotkeys = <<OwnHotkey>>
    /\ metagraph.validator_permit = <<TRUE>>

\* One configuration of the cache, for the runs about the blacklist pipeline
CacheAtRest ==
    /\ ~config.blacklist.use_request_cache
    /\ config.blacklist.request_cache_block_span = 0

\* One configuration of the epoch loop, for the runs about request admission
LoopAtRest ==
    /\ config.miner.blocks_per_epoch = 1
    /\ ~config.miner.no_set_weights

InitCache == Init /\ PipelineAtRest /\ LoopAtRest
InitBlacklist == Init /\ CacheAtRest /\ LoopAtRest

NextCache ==
    \/ \E p \in Tasks, key \in Keys : Call(p, key)
    \/ \E p \in Tasks : Acquire(p)
    \/ \E p \in Tasks : Lookup(p)
    \/ \E p \in Tasks : Record(p)
    \/ \E p \in Tasks : Sweep(p)
    \/ \E p \in Tasks : Release(p)
    \/ \E b \in Blocks : MetagraphSync(b)

SpecCache == InitCache /\ [][NextCache]_vars

NextGate ==
    \/ NextCache
    \/ \E key \in Keys : Predict(key)

SpecGate == InitCache /\ [][NextGate]_vars

\* The cache while the chain grows, whether or not the metagraph object is
\* synced
NextExpiry ==
    \/ NextCache
    \/ ChainAdvance

SpecExpiry == InitCache /\ [][NextExpiry]_vars

NextBlacklist ==
    \/ \E h \in Hotkeys, o \in Overrides, f \in BOOLEAN : Evaluate(h, o, f)
    \/ Respond
    \/ \E d \in {30, 31} : Tick(d)
    \/ \E h \in Hotkeys : RecordTimestamp(h)

SpecBlacklist == InitBlacklist /\ [][NextBlacklist]_vars

InitLoop == Init /\ PipelineAtRest /\ CacheAtRest

NextLoop ==
    \/ ChainAdvance
    \/ RunDirect
    \/ Start
    \/ Stop
    \/ Join
    \/ Enter
    \/ \E exc \in {None, "Exception"} : ExitScope(exc)
    \/ \E t \in Runs, registered \in BOOLEAN : CheckRegistration(t, registered)
    \/ \E t \in Runs : Serve(t)
    \/ \E t \in Runs : StartAxon(t)
    \/ \E t \in Runs : InitEpoch(t)
    \/ \E t \in Runs : WhileTest(t)
    \/ \E t \in Runs : ReadBlock(t)
    \/ \E t \in Runs : Poll(t)
    \/ \E t \in Runs : Refresh(t)
    \/ \E t \in Runs : Snapshot(t)
    \/ \E t \in Runs : SetWeights(t)
    \/ \E t \in Runs : Increment(t)
    \/ \E t \in Runs : Fail(t)
    \/ \E t \in Runs : FailStartup(t)
    \/ \E t \in Runs : Interrupt(t)

SpecLoop == InitLoop /\ [][NextLoop]_vars

\* The steps of one execution of run() in which every call it makes returns
RunSteps(t) ==
    \/ \E registered \in BOOLEAN : CheckRegistration(t, registered)
    \/ Serve(t)
    \/ StartAxon(t)
    \/ InitEpoch(t)
    \/ WhileTest(t)
    \/ ReadBlock(t)
    \/ Poll(t)
    \/ Refresh(t)
    \/ Snapshot(t)
    \/ SetWeights(t)
    \/ Increment(t)

\* Cancellation: the loop in threads that the caller starts and stops, with
\* weight submission on
InitCancel == InitLoop /\ ~config.miner.no_set_weights

NextCancel ==
    \/ ChainAdvance
    \/ Start
    \/ Stop
    \/ Join
    \/ \E t \in Threads : RunSteps(t)
    \/ \E t \in Threads : Fail(t)
    \/ \E t \in Threads : FailStartup(t)

\* Every thread keeps being scheduled and every call made by run() returns;
\* nothing is assumed of the chain, of the failures or of the caller.
SpecCancel ==
    /\ InitCancel
    /\ [][NextCancel]_vars
    /\ \A t \in Threads : WF_vars(RunSteps(t))

(***************************************************************************)
(* Claims about the dedup cache.                                           *)
(***************************************************************************)

\* The calls for `key` that have been issued
CallsFor(key) == {p \in Tasks : pc[p] # "idle" /\ request_key[p] = key}

\* A batch of concurrent calls for one key: every call for it was issued while
\* the key was absent, all have returned, all read the same block height.
ConcurrentBatch(key) ==
    /\ Cardinality(CallsFor(key)) >= 2
    /\ \A p \in CallsFor(key) : pc[p] = "done" /\ hist.absent_at_call[p]
    /\ \A p, q \in CallsFor(key) : current_block[p] = current_block[q]

\* C1: of N >= 2 calls issued concurrently for one fingerprint that was absent,
\* at an unchanged block height, exactly one returns false (not duplicate) and
\* the other N-1 return true, whatever the interleaving.
C1_ExactlyOneFirstSeen ==
    \A key \in Keys :
        ConcurrentBatch(key) =>
            /\ Cardinality({p \in CallsFor(key) : ~result[p]}) = 1
            /\ Cardinality({p \in CallsFor(key) : result[p]})
                 = Cardinality(CallsFor(key)) - 1

\* C1 witness: all NumTasks calls were issued for one absent key and returned.
C1_Witness ==
    \E key \in Keys : ConcurrentBatch(key) /\ CallsFor(key) = Tasks

\* C3: the call returns true exactly when the fingerprint is in the cache when
\* the call enters its critical section; when it is absent, the call has
\* inserted fingerprint -> current_block by the end of the critical section and
\* returns false.
C3_CheckAndRecord ==
    \A p \in Tasks :
        /\ pc[p] = "done" => result[p] = hist.in_cache_at_entry[p]
        /\ pc[p] = "release" =>
              /\ should_blacklist[p] = hist.in_cache_at_entry[p]
              /\ ~hist.in_cache_at_entry[p] =>
                    /\ InCache(request_cache, request_key[p])
                    /\ request_cache[request_key[p]] = current_block[p]

\* C3 witness: one call has returned true and another has returned false.
C3_Witness ==
    \E p, q \in Tasks :
        /\ pc[p] = "done" /\ result[p] /\ hist.in_cache_at_entry[p]
        /\ pc[q] = "done" /\ ~result[q] /\ ~hist.in_cache_at_entry[q]

\* After the sweep of a call made at block c, every entry that remains satisfies
\* recorded block + span >= c.
ExpiryBound ==
    \A p \in Tasks :
        pc[p] \in {"release", "done"} =>
            \A k \in DOMAIN request_cache :
                request_cache[k] + Span >= current_block[p]

\* A step removes an entry recorded at block B exactly when it is the sweep of a
\* call made at a block c > B + span; every other step keeps it, at block B.
ExpiryStep ==
    \A k \in DOMAIN request_cache :
        IF \E p \in Tasks : /\ pc[p] = "sweep" /\ pc'[p] = "release"
                            /\ current_block[p] > request_cache[k] + Span
          THEN k \notin DOMAIN request_cache'
          ELSE k \in DOMAIN request_cache'
               /\ request_cache'[k] = request_cache[k]

\* C4: expiry correctness.  With non-decreasing block heights, an entry recorded
\* at block B stays in the cache through every call made at a block <= B + span
\* and is gone after any call made at a block > B + span.
C4_ExpiryCorrect == []ExpiryBound /\ [][ExpiryStep]_vars

\* C4 witness: a call at block c has returned; an entry recorded at a block
\* B < c - span is gone and an entry recorded at a block B' >= c - span is kept.
C4_Witness ==
    \E p, q, r \in Tasks :
        /\ pc[p] = "done" /\ pc[q] = "done" /\ pc[r] = "done"
        /\ ~result[p] /\ ~result[r]
        /\ current_block[p] + Span < current_block[q]
        /\ ~InCache(request_cache, request_key[p])
        /\ current_block[r] < current_block[q]
        /\ current_block[q] <= current_block[r] + Span
        /\ InCache(request_cache, request_key[r])
        /\ request_cache[request_key[r]] = current_block[r]

(***************************************************************************)
(* Claims about the admission gate.                                        *)
(***************************************************************************)

\* C2: with use_request_cache enabled the gate rejects a request if and only if
\* its fingerprint is a duplicate; a request whose fingerprint is not in the
\* cache proceeds to the prediction handler.
C2_RejectIffDuplicate ==
    [][\A key \in Keys :
          (Predict(key) /\ config.blacklist.use_request_cache) =>
              (gate'.outcome = "Reject" <=> InCache(request_cache, key))]_vars

\* C5: the gate rejects a request as a duplicate only within the block span: a
\* request arriving at block c is rejected only if its fingerprint is recorded
\* at a block B with c <= B + span.
C5_RejectOnlyWithinSpan ==
    [][\A key \in Keys :
          (Predict(key) /\ gate'.outcome = "Reject") =>
              /\ InCache(request_cache, key)
              /\ metagraph.block <= request_cache[key] + Span]_vars

(***************************************************************************)
(* Claims about the blacklist pipeline.                                    *)
(***************************************************************************)

\* A decision has been returned by blacklist(self, func, synapse)
Returned == bl # NoEval /\ bl.outcome = "returned"

Whitelisted(h) == h \in config.blacklist.whitelist
Blacklisted(h) == h \in config.blacklist.blacklist
Registered(h) == \E i \in DOMAIN metagraph.hotkeys : metagraph.hotkeys[i] = h
HasPermit(h) ==
    \E i \in DOMAIN metagraph.hotkeys :
        metagraph.hotkeys[i] = h /\ metagraph.validator_permit[i]
Elapsed(h) == now - request_timestamps[h][1]
RateLimited(h) ==
    /\ h \in DOMAIN request_timestamps
    /\ Elapsed(h) < config.blacklist.min_request_period * 60

FixedReasons ==
    {"whitelisted hotkey", "blacklisted hotkey", "hotkey not registered",
     "validator permit required",
     "validator permit required, but hotkey not registered",
     "passed blacklist", "no reason provided", "", "None"}

\* Whether a rule before the rate limit matches the caller
EarlierRuleMatches(h) ==
    \/ Whitelisted(h)
    \/ Blacklisted(h)
    \/ ~config.blacklist.allow_non_registered /\ ~Registered(h)
    \/ config.blacklist.force_validator_permit /\ ~HasPermit(h)

\* C6: the default chain (reached through Miner.blacklist, whose override is
\* not implemented) returns the verdict and reason of the first matching rule:
\* whitelisted, blacklisted, not registered, validator permit required (with a
\* distinct reason for an unregistered caller), rate limit, otherwise allow.
C6_FirstMatchWins ==
    (Returned /\ bl.override = MinerBlacklistOverride) =>
        LET h == bl.hotkey
            d == <<bl.verdict, bl.reason>>
        IN  IF Whitelisted(h) THEN d = <<"False", "whitelisted hotkey">>
            ELSE IF Blacklisted(h) THEN d = <<"True", "blacklisted hotkey">>
            ELSE IF ~config.blacklist.allow_non_registered /\ ~Registered(h)
              THEN d = <<"True", "hotkey not registered">>
            ELSE IF config.blacklist.force_validator_permit /\ ~Registered(h)
              THEN d = <<"True",
                         "validator permit required, but hotkey not registered">>
            ELSE IF config.blacklist.force_validator_permit /\ ~HasPermit(h)
              THEN d = <<"True", "validator permit required">>
            ELSE IF RateLimited(h)
              THEN bl.verdict = "True" /\ bl.reason \notin FixedReasons
            ELSE d = <<"False", "passed blacklist">>

\* C6 witness: a caller in both the whitelist and the blacklist was allowed.
C6_Witness ==
    /\ Returned /\ bl.override = MinerBlacklistOverride
    /\ Whitelisted(bl.hotkey) /\ Blacklisted(bl.hotkey)
    /\ bl.verdict = "False" /\ bl.reason = "whitelisted hotkey"

\* The override signalled not-implemented, raised another failure, or returned
\* no verdict (None, or a pair whose verdict is None)
NoVerdictFromOverride(o) ==
    \/ o.kind = "raise"
    \/ o.kind = "return" /\ o.value = Bare("None")
    \/ /\ o.kind = "return" /\ o.value.has_len
       /\ Len(o.value.items) = 2 /\ o.value.items[1] = "None"

\* C7: whenever the override signals not-implemented, raises any other
\* failure, or returns no verdict, the decision the pipeline returns is the
\* decision of the default chain for the same request and state.
C7_FallbackToDefault ==
    (Returned /\ NoVerdictFromOverride(bl.override)) =>
        <<bl.verdict, bl.reason>> = DefaultBlacklist(bl.hotkey)

\* C7 witness: the override raised an error other than not-implemented and the
\* pipeline returned the default chain's rejection of a blacklisted caller.
C7_Witness ==
    /\ Returned
    /\ bl.override.kind = "raise" /\ bl.override.exc = "Exception"
    /\ Blacklisted(bl.hotkey) /\ ~Whitelisted(bl.hotkey)
    /\ bl.verdict = "True" /\ bl.reason = "blacklisted hotkey"

\* C8: evaluate never fails: whatever the override does, and even when the
\* telemetry log call fails, the call returns a decision.
C8_NeverFails == bl # NoEval => bl.outcome = "returned"

\* C9: every returned decision is well-formed: a boolean verdict and a
\* non-empty reason.
C9_WellFormedDecision ==
    Returned =>
        /\ bl.verdict \in {"True", "False"}
        /\ bl.reason \notin {"", "None"}

\* C10: when no earlier rule matches and the caller has a recorded timestamp,
\* the default chain rejects exactly when now minus the caller's earliest
\* recorded timestamp is below min_request_period * 60 seconds; with a period
\* of 1 minute a request 30 s after it is rejected, one 61 s after is allowed.
C10_RateLimit ==
    (/\ Returned /\ bl.override = MinerBlacklistOverride
     /\ ~EarlierRuleMatches(bl.hotkey)
     /\ bl.hotkey \in DOMAIN request_timestamps) =>
        /\ bl.verdict = "True" <=>
              Elapsed(bl.hotkey) < config.blacklist.min_request_period * 60
        /\ bl.verdict = "False" <=>
              Elapsed(bl.hotkey) >= config.blacklist.min_request_period * 60
        /\ (config.blacklist.min_request_period = 1 /\ Elapsed(bl.hotkey) = 30)
              => bl.verdict = "True"
        /\ (config.blacklist.min_request_period = 1 /\ Elapsed(bl.hotkey) = 61)
              => bl.verdict = "False"

\* C10 witness: period 1 minute, timestamps recorded at T and T+31, and a
\* request at T+61 was allowed.
C10_Witness ==
    /\ Returned /\ bl.override = MinerBlacklistOverride
    /\ ~EarlierRuleMatches(bl.hotkey)
    /\ config.blacklist.min_request_period = 1
    /\ bl.hotkey \in DOMAIN request_timestamps
    /\ Len(request_timestamps[bl.hotkey]) = 2
    /\ request_timestamps[bl.hotkey][2] = request_timestamps[bl.hotkey][1] + 31
    /\ Elapsed(bl.hotkey) = 61
    /\ bl.verdict = "False" /\ bl.reason = "passed blacklist"

(***************************************************************************)
(* Claims about the epoch loop and the lifecycle.                          *)
(***************************************************************************)

\* C11: an exception raised inside an iteration of the loop (a failed chain
\* query, telemetry or weight submission), other than the interrupt, is
\* caught and the loop goes on: the step taken from a position that can raise
\* stays inside the loop.
C11_LoopContinues ==
    [][\A t \in Runs :
          (loop[t].pc \in RaisingPositions /\ loop'[t].ended_by # "interrupt")
              => loop'[t].pc \in TryBlock]_vars

\* C12: when run() has ended because should_exit was seen true, or on the
\* interrupt, stop() of the axon has been called.
C12_AxonStoppedOnExit ==
    \A t \in Runs :
        loop[t].ended_by \in {"should_exit", "interrupt"} => axon.stopped

C14_AtMostOneLoop == Cardinality({t \in Runs : Executing(t)}) <= 1

\* C15: after run_in_background_thread: if is_running was false, should_exit
\* is false, exactly one more thread has been made, it has begun run(), and
\* is_running is true; if is_running was true, should_exit and is_running
\* are as before and no thread has been made.
C15_Start ==
    last_call.op = "start" =>
        IF last_call.was_running
          THEN /\ is_running
               /\ should_exit = last_call.was_exiting
               /\ thread = last_call.launched
          ELSE /\ is_running
               /\ ~should_exit
               /\ thread = last_call.launched + 1
               /\ loop[thread].pc # "not_started"

\* a start that found should_exit set by an earlier stop and cleared it
C15_Witness ==
    /\ last_call.op = "start"
    /\ ~last_call.was_running
    /\ last_call.was_exiting
    /\ ~should_exit
    /\ thread = 2

\* C16: stop_run_thread: if is_running was true, should_exit is set before the
\* wait and, the wait over, is_running is false whether or not the loop has
\* ended; if is_running was false, should_exit and is_running are as before.
C16_Stop ==
    last_call.op = "stop" =>
        IF last_call.was_running
          THEN /\ should_exit
               /\ is_running = (sup.pc = "join")
          ELSE /\ sup.pc = "idle"
               /\ should_exit = last_call.was_exiting
               /\ ~is_running

\* the wait timed out: the loop is still under way and is_running is false
C16_Witness ==
    /\ last_call.op = "stop"
    /\ last_call.was_running
    /\ sup.pc = "idle"
    /\ Executing(thread)
    /\ ~is_running

\* C17: when run() finds the hotkey not registered, the process ends; when
\* no other execution of run() was begun, serve() and start() of the axon
\* were never called; no iteration of the loop was made.
C17_UnregisteredEndsProcess ==
    \A t \in Runs :
        loop[t].ended_by = "unregistered" =>
            /\ process = "exited"
            /\ loop[t].step = 0
            /\ (\A u \in Runs \ {t} : loop[u].pc = "not_started")
                    => axon = NoAxonCall

\* C18: __enter__ has the effect of run_in_background_thread; once __exit__
\* has returned, on the normal path or on a failure of the body,
\* is_running is false, should_exit is true, and the failure of the body, if
\* any, is raised again.
C18_Scope ==
    /\ last_call.op = "enter" =>
          /\ is_running
          /\ sup.scope = "in"
          /\ IF last_call.was_running
               THEN thread = last_call.launched
               ELSE ~should_exit /\ thread = last_call.launched + 1
    /\ (last_call.op = "exit" /\ sup.pc = "idle") =>
          /\ ~is_running
          /\ should_exit
          /\ sup.scope = "out"
          /\ last_call.propagated = last_call.exc

\* the with block was left by a failure while the loop was running
C18_Witness ==
    /\ last_call.op = "exit"
    /\ sup.pc = "idle"
    /\ last_call.was_running
    /\ last_call.exc = "Exception"
    /\ last_call.propagated = "Exception"

\* C19: the bookkeeping of an epoch (the refresh of last_epoch_block done,
\* the snapshot, the weight submission, the increment of step) happens only
\* in an iteration whose wait ended at the epoch boundary.
C19_BookkeepingAtBoundary ==
    \A t \in Runs :
        loop[t].pc \in {"metagraph", "set_weights", "increment"}
            => loop[t].at_boundary

\* C20: step is 0 until the first iteration completes, and a step of the
\* program adds exactly one to it when it completes an iteration (after the
\* refresh and the weight submission) and leaves it unchanged otherwise, a
\* failure of the iteration included.
C20_StepCounts ==
    /\ [](\A t \in Runs :
            loop[t].pc \in {"not_started", "check_registration", "serve",
                            "start_axon", "init"} => loop[t].step = 0)
    /\ [][\A t \in Runs :
            IF loop[t].pc = "increment" /\ loop'[t].pc = "while"
              THEN loop'[t].step = loop[t].step + 1
              ELSE loop'[t].step = loop[t].step]_vars

\* an iteration failed after another had completed
C20_Witness ==
    \E t \in Runs : loop[t].ended_by = "exception" /\ loop[t].step = 1

(***************************************************************************)
(* Further claims about the cache, the pipeline and the lifecycle.         *)
(***************************************************************************)

\* C21: expiry follows the chain's height: once a check has swept, no entry
\* that the check found in the cache, and whose recorded block +
\* request_cache_block_span was below the chain's height when the check read
\* the block, is left in the cache.
C21_ExpiryByChainHeight ==
    \A p \in Tasks :
        pc[p] = "release" =>
            \A k \in DOMAIN request_cache :
                (k # request_key[p] \/ found[p])
                    => ~(request_cache[k] + Span < hist.chain_at_lookup[p])

\* The override returned a pair whose verdict is not None
PairWithVerdict(o) ==
    /\ o.kind = "return" /\ o.value.has_len
    /\ Len(o.value.items) = 2 /\ o.value.items[1] # "None"

\* The override returned a bare verdict
BareVerdict(o) ==
    /\ o.kind = "return" /\ ~o.value.has_len
    /\ o.value.items[1] # "None"

\* C22: when the override returns a pair (verdict, reason) whose verdict is
\* not None, the decision returned is exactly that pair, whatever the default
\* chain would say; when it returns a bare verdict, the decision returned is
\* that verdict with the reason "no reason provided".
C22_OverrideVerbatim ==
    Returned =>
        /\ PairWithVerdict(bl.override) =>
              <<bl.verdict, bl.reason>> =
                  <<bl.override.value.items[1], bl.override.value.items[2]>>
        /\ BareVerdict(bl.override) =>
              <<bl.verdict, bl.reason>> =
                  <<bl.override.value.items[1], "no reason provided">>

\* the override rejected, with its own reason, a caller that the default
\* chain allows as whitelisted
C22_Witness ==
    /\ Returned
    /\ bl.override.value = Tuple(<<"True", "custom reason">>)
    /\ bl.override.kind = "return"
    /\ Whitelisted(bl.hotkey)
    /\ DefaultBlacklist(bl.hotkey) = <<"False", "whitelisted hotkey">>
    /\ bl.verdict = "True" /\ bl.reason = "custom reason"

\* C23: a step of a call changes the cache only by recording the key of the
\* call, when the cache did not hold it, or by removing entries that its
\* sweep finds expired; an entry that stays keeps its recorded block, on a
\* duplicate hit too.
C23_CacheFrame ==
    [][/\ \A k \in DOMAIN request_cache \cap DOMAIN request_cache' :
             request_cache'[k] = request_cache[k]
       /\ \A k \in DOMAIN request_cache' \ DOMAIN request_cache :
             \E p \in Tasks :
                 /\ pc[p] = "record" /\ ~found[p] /\ k = request_key[p]
                 /\ request_cache'[k] = current_block[p]
       /\ \A k \in DOMAIN request_cache \ DOMAIN request_cache' :
             \E p \in Tasks :
                 /\ pc[p] = "sweep"
                 /\ Expired(request_cache[k], Span, current_block[p])]_vars

\* a duplicate hit at a later block has left the entry at its first block
C23_Witness ==
    \E p \in Tasks :
        /\ pc[p] = "done" /\ result[p]
        /\ request_key[p] \in DOMAIN request_cache
        /\ request_cache[request_key[p]] < current_block[p]

\* C24: whenever is_running is true and no stop_run_thread is waiting for
\* the thread, a run() begun by run_in_background_thread is under way.
C24_RunningMeansLoop ==
    (is_running /\ sup.pc = "idle") => \E t \in Threads : Executing(t)

====
